---- MODULE Spec2Model ----
(***************************************************************************)
(* A state-machine model of the Maxi agent: the browser-side Pow3r Pass    *)
(* credential service (src/unnamed/part_001), the edge orchestrator worker *)
(* (src/workers/orchestrator/worker.ts), the API client                    *)
(* (src/src/services/api.ts), the chat UI (src/src/App.tsx) and the logger *)
(* (src/src/utils/logger.ts).                                              *)
(***************************************************************************)
EXTENDS Integers, Sequences, FiniteSets, TLC

VARIABLES
    cache,      \* Pow3rPassService.cache : provider -> entry | NoEntry
    clock,      \* Date.now() of the browser, in minutes
    call,       \* the getCredential calls in flight, per caller
    upstream,   \* number of GET /credentials/{provider} requests issued
    env,        \* the worker's secrets: XAI_API_KEY, ELEVENLABS_API_KEY
    now,        \* Date.now() of the worker
    kvConfig,   \* AGENT_STORE['agent-config']
    kvStats,    \* AGENT_STORE['stats:messages'], AGENT_STORE['stats:sessions']
    r2,         \* the keys of the blobs in ASSETS
    req,        \* the requests the worker is handling, per slot
    overtaken,  \* history: the slots whose pending config write was stamped
                \* before a config write that has since been executed
    health,     \* Pow3rPassService.healthChecked, .isHealthy, checkHealth call
    keys,       \* the checkApiKeys call: its Promise.all and its result
    app,        \* the App component: React state, last render, chat call
    storage,    \* localStorage: 'maxi-voice-enabled', 'maxi-dark-mode'
    logger      \* the Logger singleton: its buffer, and the array last returned

credVars == <<cache, clock, call, upstream>>

workerVars == <<env, now, kvConfig, kvStats, r2, req, overtaken>>

browserVars == <<health, keys, app, storage, logger>>

vars == <<cache, clock, call, upstream, env, now, kvConfig, kvStats, r2, req,
          overtaken, health, keys, app, storage, logger>>

(***************************************************************************)
(* JavaScript values                                                       *)
(***************************************************************************)
Null == "null"
Undefined == "undefined"
\* NaN is kept apart from every time value (times are >= 0)
NaN == -1
\* Map.get of a key that is not in the map
NoEntry == [present |-> FALSE, token |-> Undefined, expiresAt |-> NaN]

Truthy_OnlyNull(v) == v # Null

\* JavaScript truthiness of a token: a non-empty string.
Truthy(v) == v \notin {Null, Undefined, ""}

(***************************************************************************)
(* Dates.  An ISO-8601 string is modelled as the fixed-width sequence of   *)
(* the decimal digits of its time; any other string does not parse.        *)
(***************************************************************************)
\* characters are numbered: the digits are 0..9, OtherChar is any other one
Digits == 0..9
OtherChar == 10

ToISOString(t) == <<t \div 10, t % 10>>

IsISO(s) == Len(s) = 2 /\ s[1] \in Digits /\ s[2] \in Digits

\* new Date(s).getTime()
DateGetTime(s) == IF IsISO(s) THEN 10 * s[1] + s[2] ELSE NaN

\* a > b for numbers, false when either side is NaN
NumGt(a, b) == a # NaN /\ b # NaN /\ a > b

\* lexicographic order of two ISO strings
IsoLeq(s, t) == s[1] < t[1] \/ (s[1] = t[1] /\ s[2] <= t[2])

(***************************************************************************)
(* Pow3r Pass credential service (browser)                                 *)
(***************************************************************************)
MaxClock == 6
MaxUpstream == 2

TTLMinutes == 5

\* the providers checkApiKeys asks for (src/src/services/api.ts:187-189)
Providers == {"xai", "elevenlabs", "gemini"}
\* the providers of the sequential specification
SeqProviders == {"xai", "elevenlabs"}
\* the getCredential activations on the shared singleton
\* (src/unnamed/part_001:149-157): two callers, and the three elements of the
\* Promise.all of checkApiKeys
Callers == {"checkApiKeys", "settings", "all1", "all2", "all3"}
\* the caller of the sequential specification
SeqCallers == {"checkApiKeys"}
Tokens == {"tokA", "tokB"}

\* expiresAt values the credential service may supply
\* (a field of a JSON body: absent, or a string)
Absent == [given |-> FALSE, text |-> <<>>]
Str(s) == [given |-> TRUE, text |-> s]
SuppliedExpiry == {Absent, Str(<<>>), Str(<<OtherChar>>), Str(ToISOString(3))}

NoResponse == [kind |-> "none", token |-> Undefined, expiresAt |-> Absent]
FailResponse(k) == [kind |-> k, token |-> Undefined, expiresAt |-> Absent]

\* what the remote service can answer to GET /credentials/{provider}
CredResponses ==
    {FailResponse(k) : k \in {"networkError", "notOk", "malformed", "jsonNull"}}
    \cup {[kind |-> "ok", token |-> t, expiresAt |-> e] :
            t \in Tokens \cup {Undefined}, e \in SuppliedExpiry}

IdleCall == [pc |-> "idle", provider |-> Null, result |-> Null, resp |-> NoResponse]

CacheHit_AtExpiry(entry, t) ==
    entry.present /\ entry.expiresAt # NaN /\ entry.expiresAt >= t

\* cached && cached.expiresAt > Date.now()
CacheHit(entry, t) == entry.present /\ NumGt(entry.expiresAt, t)

\* data.expiresAt ? new Date(data.expiresAt).getTime() : Date.now() + 5 min
EntryExpiry(supplied, t) ==
    IF supplied.given /\ Len(supplied.text) > 0
    THEN DateGetTime(supplied.text)
    ELSE t + TTLMinutes

\* getCredential up to its first await: the cache check and the fetch
GetCredentialCall(c, p) ==
    /\ call[c].pc = "idle"
    /\ IF CacheHit(cache[p], clock)
       THEN /\ call' = [call EXCEPT ![c] =
                    [pc |-> "done", provider |-> p, result |-> cache[p].token,
                     resp |-> NoResponse]]
            /\ UNCHANGED upstream
       ELSE /\ upstream[p] < MaxUpstream
            /\ call' = [call EXCEPT ![c] =
                    [pc |-> "fetching", provider |-> p, result |-> Null,
                     resp |-> NoResponse]]
            /\ upstream' = [upstream EXCEPT ![p] = @ + 1]
    /\ UNCHANGED <<cache, clock>>
    /\ UNCHANGED workerVars
    /\ UNCHANGED browserVars

CacheSet_KeepFirst(old, resp, t) ==
    IF old.present THEN old
    ELSE [present |-> TRUE, token |-> resp.token,
          expiresAt |-> EntryExpiry(resp.expiresAt, t)]

\* this.cache.set(provider, { token: data.token, expiresAt }): the entry that
\* replaces the one the map held
CacheSet(old, resp, t) ==
    [present |-> TRUE, token |-> resp.token,
     expiresAt |-> EntryExpiry(resp.expiresAt, t)]

\* getCredential after the fetch settles
GetCredentialResponse(c, resp) ==
    /\ call[c].pc = "fetching"
    /\ LET p == call[c].provider IN
       IF resp.kind = "ok"
       THEN /\ cache' = [cache EXCEPT ![p] = CacheSet(cache[p], resp, clock)]
            /\ call' = [call EXCEPT ![c].pc = "done", ![c].result = resp.token,
                                     ![c].resp = resp]
       ELSE /\ call' = [call EXCEPT ![c].pc = "done", ![c].result = Null,
                                     ![c].resp = resp]
            /\ UNCHANGED cache
    /\ UNCHANGED <<clock, upstream>>
    /\ UNCHANGED workerVars
    /\ UNCHANGED browserVars

\* the caller takes the resolved value
CallReturn(c) ==
    /\ call[c].pc = "done"
    /\ call' = [call EXCEPT ![c] = IdleCall]
    /\ UNCHANGED <<cache, clock, upstream>>
    /\ UNCHANGED workerVars
    /\ UNCHANGED browserVars

ClockTick ==
    /\ clock < MaxClock
    /\ clock' = clock + 1
    /\ UNCHANGED <<cache, call, upstream>>
    /\ UNCHANGED workerVars
    /\ UNCHANGED browserVars

(***************************************************************************)
(* Orchestrator worker: values                                             *)
(***************************************************************************)
MaxTime == 2
MaxStat == 1
MaxBlobs == 1
MaxMatches == 2

Slots == {"r1", "r2"}
\* the slot of the specification that handles one request at a time
SeqSlots == {"r1"}

Methods == {"GET", "POST", "PUT", "DELETE", "OPTIONS"}

\* url.pathname, split at '/': '/' is <<>>, '/pow3r-pass/' is <<"pow3r-pass", "">>
Paths == {<<>>, <<"health">>, <<"chat">>, <<"voice">>, <<"search">>,
          <<"config">>, <<"status">>, <<"mcp">>, <<"pow3r-pass", "xai">>,
          <<"pow3r-pass">>, <<"other">>}

\* a field of a JSON object that holds a string
NoField == [given |-> FALSE, v |-> ""]
Field(x) == [given |-> TRUE, v |-> x]

\* AgentConfig.voice
NoVoice == [given |-> FALSE, enabled |-> FALSE]
Voice(b) == [given |-> TRUE, enabled |-> b]

\* an AgentConfig document
ConfigA == [persona |-> Field("personaA"), voice |-> Voice(FALSE),
            capabilities |-> Field("llmA"), lastUpdated |-> Absent]
ConfigB == [persona |-> Field("personaB"), voice |-> Voice(TRUE),
            capabilities |-> Field("llmB"), lastUpdated |-> Str(ToISOString(9))]

\* getDefaultConfig(env), built at time t
getDefaultConfig(t) ==
    [persona |-> Field("Maxi"), voice |-> Voice(TRUE),
     capabilities |-> Field("xai/grok-2"), lastUpdated |-> Str(ToISOString(t))]

\* JSON.stringify of a document and JSON.parse of the resulting text
JSONStringify(doc) == [text |-> "json", doc |-> doc]
JSONParse(t) == t.doc

\* a key of the store that holds nothing: get() answers null
KvNull == [present |-> FALSE, value |-> JSONStringify(ConfigA)]
KvText(t) == [present |-> TRUE, value |-> t]

\* String(n) and parseInt(s) for the counters
String(n) == IF n < 10 THEN <<n>> ELSE <<n \div 10, n % 10>>
ParseInt(s) == IF Len(s) = 1 THEN s[1] ELSE 10 * s[1] + s[2]

\* the knowledge store: 'knowledge:{id}' -> text (a sequence of characters),
\* "" for k2, nothing for k3
KnowledgeIds == {"k1", "k2", "k3", "k4"}
KnowledgeText(id) ==
    CASE id = "k1" -> Str(<<1>>)
      [] id = "k2" -> Str(<<>>)
      [] id = "k4" -> Str(<<2, 3>>)
      [] OTHER -> Absent

\* sequences of distinct elements of S, of length at most n
SeqUpTo(S, n) ==
    UNION {{f \in [1..k -> S] : \A i, j \in 1..k : i # j => f[i] # f[j]} :
            k \in 0..n}

\* request bodies, per route
ChatBodies ==
    {[kind |-> k] : k \in {"malformed", "null"}}
    \cup {[kind |-> "object", sessionId |-> s, includeVoice |-> v] :
            s \in {NoField, Field("s1")}, v \in BOOLEAN}
VoiceBodies ==
    {[kind |-> k] : k \in {"malformed", "null"}}
    \cup {[kind |-> "object", text |-> t] : t \in {NoField, Field("hi")}}
SearchBodies == {[kind |-> k] : k \in {"malformed", "null", "object"}}
ConfigBodies ==
    {[kind |-> k] : k \in {"malformed", "null"}}
    \cup {[kind |-> "object", config |-> c] : c \in {ConfigA, ConfigB}}
ToolNames == {"agent_chat", "agent_voice", "agent_search", "agent_config",
              "agent_status", "agent_journal"}
McpBodies ==
    {[kind |-> k] : k \in {"malformed", "null"}}
    \cup {[kind |-> "object", method |-> m, params |-> FALSE, name |-> "none"] :
            m \in {"tools/list", "tools/call", "other"}}
    \cup {[kind |-> "object", method |-> "tools/call", params |-> TRUE, name |-> n] :
            n \in ToolNames}
NoBody == [kind |-> "none"]

(***************************************************************************)
(* Orchestrator worker: routing                                            *)
(***************************************************************************)

Route_ChatAnyMethod(path, method) ==
    IF method = "OPTIONS" THEN "preflight"
    ELSE IF path = <<"health">> \/ path = <<>> THEN "health"
    ELSE IF path = <<"chat">> THEN "chat"
    ELSE IF path = <<"voice">> /\ method = "POST" THEN "voice"
    ELSE IF path = <<"search">> /\ method = "POST" THEN "search"
    ELSE IF path = <<"config">> /\ method = "GET" THEN "configGet"
    ELSE IF path = <<"config">> /\ method = "PUT" THEN "configPut"
    ELSE IF path = <<"status">> THEN "status"
    ELSE IF path = <<"mcp">> /\ method = "POST" THEN "mcp"
    ELSE IF Len(path) >= 2 /\ path[1] = "pow3r-pass" THEN "pow3rPass"
    ELSE "notFound"

\* the chain of tests of fetch()
Route(path, method) ==
    IF method = "OPTIONS" THEN "preflight"
    ELSE IF path = <<"health">> \/ path = <<>> THEN "health"
    ELSE IF path = <<"chat">> /\ method = "POST" THEN "chat"
    ELSE IF path = <<"voice">> /\ method = "POST" THEN "voice"
    ELSE IF path = <<"search">> /\ method = "POST" THEN "search"
    ELSE IF path = <<"config">> /\ method = "GET" THEN "configGet"
    ELSE IF path = <<"config">> /\ method = "PUT" THEN "configPut"
    ELSE IF path = <<"status">> THEN "status"
    ELSE IF path = <<"mcp">> /\ method = "POST" THEN "mcp"
    ELSE IF Len(path) >= 2 /\ path[1] = "pow3r-pass" THEN "pow3rPass"
    ELSE "notFound"

\* the bodies a request that takes this route may carry
BodiesFor(route) ==
    CASE route = "chat" -> ChatBodies
      [] route = "voice" -> VoiceBodies
      [] route = "search" -> SearchBodies
      [] route = "configPut" -> ConfigBodies
      [] route = "mcp" -> McpBodies
      [] OTHER -> {NoBody}

\* responses
NoResp == [status |-> 0, kind |-> "none"]
jsonResponse(kind, status) == [status |-> status, kind |-> kind]
ErrorResponse(msg) ==
    [status |-> 500, kind |-> "error", error |-> "Internal server error",
     message |-> msg]
NotFound == [status |-> 404, kind |-> "error", error |-> "Not found"]
ConfigResponse(c) == [status |-> 200, kind |-> "config", config |-> c]

\* the messages of the errors the handlers can throw
SyntaxError == "SyntaxError: Unexpected token in JSON"
TypeError == "TypeError: Cannot read properties of null"
KvError == "KV error"
NoApiKeyError == "No API key configured. Please add XAI_API_KEY via Pow3r Pass."
LlmError == "LLM API error"
NoTtsKeyError == "No ElevenLabs API key configured"
TtsError == "ElevenLabs API error"
NetworkError == "fetch failed"
(***************************************************************************)
(* Orchestrator worker: external services                                  *)
(***************************************************************************)

\* what config.superbots.link can answer to the worker's credential fetch
WorkerCredResponses ==
    {[kind |-> k, token |-> Undefined] :
        k \in {"networkError", "notOk", "malformed", "jsonNull"}}
    \cup {[kind |-> "ok", token |-> t] : t \in {"tokA", "", Undefined}}

\* fetchPow3rPassCredential: data.token of a 2xx JSON answer, null otherwise
fetchPow3rPassCredential(resp) ==
    IF resp.kind = "ok" THEN resp.token ELSE Null

\* what a credential fetch brought, for the record of the request
CredKind(resp) ==
    IF resp.kind # "ok" THEN resp.kind
    ELSE IF resp.token = Undefined THEN "noToken"
    ELSE IF resp.token = "" THEN "emptyToken"
    ELSE "token"

\* the outcomes of the embedding, the similarity query and the point-reads
SearchOutcomes ==
    {[kind |-> k, matches |-> <<>>, kvFail |-> FALSE] :
        k \in {"embedFail", "queryFail"}}
    \cup {[kind |-> "ok", matches |-> m, kvFail |-> FALSE] :
            m \in SeqUpTo(KnowledgeIds, MaxMatches)}
    \cup {[kind |-> "ok", matches |-> m, kvFail |-> TRUE] :
            m \in SeqUpTo(KnowledgeIds, MaxMatches) \ {<<>>}}

\* how the search went, for the record of the request
SearchKind(o) == IF o.kind = "ok" /\ o.kvFail THEN "kvFail" ELSE o.kind

RECURSIVE KeepAll(_)
KeepAll(ids) ==
    IF ids = <<>> THEN <<>>
    ELSE <<[id |-> Head(ids), text |-> KnowledgeText(Head(ids)).text]>>
         \o KeepAll(Tail(ids))

RECURSIVE FilterText(_)
\* knowledge.filter(k => k.text) over the chunks {id, text: text || ''}
FilterText(ids) ==
    IF ids = <<>> THEN <<>>
    ELSE LET t == KnowledgeText(Head(ids))
             chunk == [id |-> Head(ids), text |-> t.text]
         IN IF t.given /\ t.text # <<>>
            THEN <<chunk>> \o FilterText(Tail(ids))
            ELSE FilterText(Tail(ids))

searchKnowledge_PartialOnReadFailure(o) ==
    IF o.kind # "ok" THEN <<>> ELSE FilterText(o.matches)

\* searchKnowledge: [] on any exception, else the chunks with a text
searchKnowledge(o) ==
    IF o.kind # "ok" \/ o.kvFail THEN <<>>
    ELSE FilterText(o.matches)

\* the separator of join('\n\n')
Newline == 11

RECURSIVE Join(_)
\* knowledge.map(k => k.text).join('\n\n')
Join(chunks) ==
    IF chunks = <<>> THEN <<>>
    ELSE IF Len(chunks) = 1 THEN chunks[1].text
    ELSE chunks[1].text \o <<Newline, Newline>> \o Join(Tail(chunks))

LlmOutcomes == {"ok", "notOk", "network", "badJson"}
TtsOutcomes == {"ok", "notOk", "network"}

(***************************************************************************)
(* Orchestrator worker: the request being handled in a slot                *)
(***************************************************************************)
NoSent == [called |-> FALSE, knowledgeMsg |-> FALSE, context |-> <<>>]
NoAudio == [given |-> FALSE, session |-> "", at |-> 0]

IdleReq ==
    [pc |-> "idle", method |-> "", path |-> <<>>, route |-> "", body |-> NoBody,
     tool |-> "", sessionId |-> "", includeVoice |-> FALSE,
     search |-> "none", matched |-> <<>>, knowledge |-> <<>>,
     config |-> ConfigA, cred |-> "none", llm |-> "none", sent |-> NoSent,
     value |-> 0, tts |-> "none", blob |-> "none", audioKey |-> NoAudio,
     stamped |-> ConfigA, thrown |-> "", resp |-> NoResp]

Catch_Status200(msg) ==
    [status |-> 200, kind |-> "error", error |-> "Internal server error",
     message |-> msg]

\* the catch of fetch(): a 500 that carries the error's message
Catch(msg) == ErrorResponse(msg)

\* an error leaves the handler and reaches the catch of fetch()
Throw(q, msg) == [q EXCEPT !.pc = "done", !.thrown = msg, !.resp = Catch(msg)]

Respond(q, resp) == [q EXCEPT !.pc = "done", !.resp = resp]

SessionOf_AlwaysNew(body) == "uuid"

\* request.sessionId || crypto.randomUUID()
SessionOf(body) == IF body.sessionId.given THEN body.sessionId.v ELSE "uuid"

\* handleChat entered with a request object
EnterChat(q, sessionId, includeVoice) ==
    [q EXCEPT !.pc = "chatSearch", !.sessionId = sessionId,
              !.includeVoice = includeVoice]

Stamp_KeepClientValue(config, t) ==
    IF config.lastUpdated.given THEN config
    ELSE [config EXCEPT !.lastUpdated = Str(ToISOString(t))]

\* config.lastUpdated = new Date().toISOString()
Stamp(config, t) == [config EXCEPT !.lastUpdated = Str(ToISOString(t))]

ListedTools_WithJournal ==
    {"agent_chat", "agent_voice", "agent_search", "agent_config", "agent_status",
     "agent_journal"}

\* the names of the tools array that tools/list returns
ListedTools ==
    {"agent_chat", "agent_voice", "agent_search", "agent_config", "agent_status"}

\* handleMCP, up to its first await
handleMCP(q, body) ==
    IF body.method = "tools/list"
    THEN Respond(q, [status |-> 200, kind |-> "tools", tools |-> ListedTools])
    ELSE IF body.method = "tools/call" THEN
        IF ~body.params THEN Throw(q, TypeError)
        ELSE LET t == [q EXCEPT !.tool = body.name] IN
             CASE body.name = "agent_chat" -> EnterChat(t, "uuid", FALSE)
               [] body.name = "agent_voice" -> [t EXCEPT !.pc = "voice"]
               [] body.name = "agent_search" -> [t EXCEPT !.pc = "search"]
               [] body.name = "agent_config" -> [t EXCEPT !.pc = "mcpConfig"]
               [] body.name = "agent_status" -> [t EXCEPT !.pc = "status"]
               [] OTHER -> Respond(t, [status |-> 200, kind |-> "mcpError",
                                       error |-> "Unknown tool"])
    ELSE Respond(q, [status |-> 200, kind |-> "mcpError",
                     error |-> "Unknown method"])

\* fetch(), from the arrival of the request to the first await on a service
Dispatch(method, path, body, t) ==
    LET route == Route(path, method)
        q == [IdleReq EXCEPT !.method = method, !.path = path,
                             !.route = route, !.body = body]
    IN CASE route = "preflight" -> Respond(q, jsonResponse("preflight", 200))
         [] route = "health" -> Respond(q, jsonResponse("health", 200))
         [] route = "notFound" -> Respond(q, NotFound)
         [] route = "status" -> [q EXCEPT !.pc = "status"]
         [] route = "configGet" -> [q EXCEPT !.pc = "configGet"]
         [] route = "pow3rPass" -> [q EXCEPT !.pc = "pow3rPass"]
         [] OTHER ->
            IF body.kind = "malformed" THEN Throw(q, SyntaxError)
            ELSE IF body.kind = "null" THEN Throw(q, TypeError)
            ELSE CASE route = "chat" ->
                        EnterChat(q, SessionOf(body), body.includeVoice)
                   [] route = "voice" -> [q EXCEPT !.pc = "voice"]
                   [] route = "search" -> [q EXCEPT !.pc = "search"]
                   [] route = "configPut" ->
                        [q EXCEPT !.pc = "configPut",
                                  !.stamped = Stamp(body.config, t)]
                   [] route = "mcp" -> handleMCP(q, body)

\* parseInt of a stored counter, 0 when the key holds nothing
StatValue(s) == IF s.given /\ s.text # <<>> THEN ParseInt(s.text) ELSE 0

(***************************************************************************)
(* Orchestrator worker: actions (one per stretch of a handler between two  *)
(* awaits on a shared store)                                               *)
(***************************************************************************)

\* a request arrives and fetch() runs up to its first await on a service
Receive(r, method, path, body) ==
    /\ req[r].pc = "idle"
    /\ body \in BodiesFor(Route(path, method))
    /\ LET q == Dispatch(method, path, body, now) IN
       /\ q.pc = "chatSearch" =>
            /\ StatValue(kvStats.messages) < MaxStat
            /\ q.includeVoice => Cardinality(r2) < MaxBlobs
       /\ req' = [req EXCEPT ![r] = q]
    /\ overtaken' = overtaken \ {r}
    /\ UNCHANGED <<env, now, kvConfig, kvStats, r2>>
    /\ UNCHANGED credVars
    /\ UNCHANGED browserVars

\* handleChat: searchKnowledge and the context
ChatSearch(r, o) ==
    /\ req[r].pc = "chatSearch"
    /\ req' = [req EXCEPT ![r].pc = "chatConfig",
                          ![r].search = SearchKind(o),
                          ![r].matched = o.matches,
                          ![r].knowledge = searchKnowledge(o)]
    /\ UNCHANGED <<env, now, kvConfig, kvStats, r2, overtaken>>
    /\ UNCHANGED credVars
    /\ UNCHANGED browserVars

\* handleChat: the config is loaded and the API key resolved
ChatLoadConfig(r, kvOk, credResp) ==
    /\ req[r].pc = "chatConfig"
    /\ LET q == req[r]
           config == IF kvConfig.present THEN JSONParse(kvConfig.value)
                     ELSE getDefaultConfig(now)
           fetched == ~Truthy(env.XAI_API_KEY)
           apiKey == IF fetched THEN fetchPow3rPassCredential(credResp)
                     ELSE env.XAI_API_KEY
       IN /\ fetched \/ credResp.kind = "networkError"
          /\ req' = [req EXCEPT ![r] =
                IF ~kvOk THEN Throw(q, KvError)
                ELSE IF ~Truthy(apiKey)
                THEN Throw([q EXCEPT !.config = config, !.cred = CredKind(credResp)],
                           NoApiKeyError)
                ELSE [q EXCEPT !.pc = "chatLLM", !.config = config,
                               !.cred = IF fetched THEN CredKind(credResp) ELSE "env"]]
    /\ UNCHANGED <<env, now, kvConfig, kvStats, r2, overtaken>>
    /\ UNCHANGED credVars
    /\ UNCHANGED browserVars

\* handleChat: callLLM
ChatCallLLM(r, o) ==
    /\ req[r].pc = "chatLLM"
    /\ LET q == req[r]
           context == Join(q.knowledge)
           sent == [called |-> TRUE, knowledgeMsg |-> context # <<>>,
                    context |-> context]
           s == [q EXCEPT !.llm = o, !.sent = sent]
       IN req' = [req EXCEPT ![r] =
            CASE o = "ok" -> [s EXCEPT !.pc = "statGet"]
              [] o = "notOk" -> Throw(s, LlmError)
              [] o = "network" -> Throw(s, NetworkError)
              [] OTHER -> Throw(s, SyntaxError)]
    /\ UNCHANGED <<env, now, kvConfig, kvStats, r2, overtaken>>
    /\ UNCHANGED credVars
    /\ UNCHANGED browserVars

\* the chat response; config.voice?.enabled decides whether the voice branch runs
ChatResponse(q, audio) ==
    [status |-> 200, kind |-> "chat", text |-> "reply", audioUrl |-> audio,
     sessionId |-> q.sessionId, retrievalCount |-> Len(q.knowledge)]

StatIncrement_NoAdd(s) == StatValue(s)

\* (current ? parseInt(current) : 0) + 1
StatIncrement(s) == StatValue(s) + 1

\* incrementStat: the read of the counter
StatGet(r, kvOk) ==
    /\ req[r].pc = "statGet"
    /\ req' = [req EXCEPT ![r] =
            IF ~kvOk THEN Throw(req[r], KvError)
            ELSE [req[r] EXCEPT !.pc = "statPut",
                                !.value = StatIncrement(kvStats.messages)]]
    /\ UNCHANGED <<env, now, kvConfig, kvStats, r2, overtaken>>
    /\ UNCHANGED credVars
    /\ UNCHANGED browserVars

VoiceWanted_IgnoreConfig(q) == q.includeVoice

\* request.includeVoice && config.voice?.enabled
VoiceWanted(q) == q.includeVoice /\ q.config.voice.given /\ q.config.voice.enabled

\* incrementStat: the write of the counter, then the test of the voice branch
StatPut(r, kvOk) ==
    /\ req[r].pc = "statPut"
    /\ LET q == req[r] IN
       IF ~kvOk
       THEN /\ req' = [req EXCEPT ![r] = Throw(q, KvError)]
            /\ UNCHANGED kvStats
       ELSE /\ kvStats' = [kvStats EXCEPT !.messages = Str(String(q.value))]
            /\ req' = [req EXCEPT ![r] =
                    IF VoiceWanted(q)
                    THEN [q EXCEPT !.pc = "chatVoice"]
                    ELSE Respond(q, ChatResponse(q, NoAudio))]
    /\ UNCHANGED <<env, now, kvConfig, r2, overtaken>>
    /\ UNCHANGED credVars
    /\ UNCHANGED browserVars

\* synthesizeVoice: "noKey", "typeError" or the outcome of the TTS call
synthesizeVoice(text, credResp, o) ==
    LET apiKey == IF Truthy(env.ELEVENLABS_API_KEY) THEN env.ELEVENLABS_API_KEY
                  ELSE fetchPow3rPassCredential(credResp)
    IN IF ~Truthy(apiKey) THEN "noKey"
       ELSE IF ~text.given THEN "typeError"
       ELSE o

\* the message of the error synthesizeVoice throws
VoiceErrorOf(outcome) ==
    CASE outcome = "noKey" -> NoTtsKeyError
      [] outcome = "typeError" -> TypeError
      [] outcome = "notOk" -> TtsError
      [] OTHER -> NetworkError

ChatVoiceFailed_Rethrow(q) ==
    Throw(q, IF q.blob = "fail" THEN "R2 error" ELSE VoiceErrorOf(q.tts))

\* the catch of the voice branch of handleChat: the failure is logged and the
\* response goes out without an audioUrl
ChatVoiceFailed(q) == Respond(q, ChatResponse(q, NoAudio))

\* the choices of a step that resolves the ElevenLabs key are drawn only
\* where the code uses them
TtsChoice(credResp, o) ==
    /\ Truthy(env.ELEVENLABS_API_KEY) => credResp.kind = "networkError"
    /\ (~Truthy(env.ELEVENLABS_API_KEY) /\ ~Truthy(fetchPow3rPassCredential(credResp)))
         => o = "ok"

\* handleChat: the voice branch, whose errors are caught and logged
ChatVoice(r, credResp, o) ==
    /\ req[r].pc = "chatVoice"
    /\ TtsChoice(credResp, o)
    /\ LET q == req[r]
           outcome == synthesizeVoice(Field("reply"), credResp, o)
       IN req' = [req EXCEPT ![r] =
            IF outcome = "ok"
            THEN [q EXCEPT !.pc = "chatAudioPut", !.tts = "ok",
                           !.audioKey = [given |-> TRUE, session |-> q.sessionId,
                                         at |-> now]]
            ELSE ChatVoiceFailed([q EXCEPT !.tts = outcome])]
    /\ UNCHANGED <<env, now, kvConfig, kvStats, r2, overtaken>>
    /\ UNCHANGED credVars
    /\ UNCHANGED browserVars

\* handleChat: the audio blob is written to ASSETS
ChatAudioPut(r, ok) ==
    /\ req[r].pc = "chatAudioPut"
    /\ LET q == req[r] IN
       IF ok
       THEN /\ r2' = r2 \cup {q.audioKey}
            /\ req' = [req EXCEPT ![r] =
                    Respond([q EXCEPT !.blob = "ok"], ChatResponse(q, q.audioKey))]
       ELSE /\ req' = [req EXCEPT ![r] = ChatVoiceFailed([q EXCEPT !.blob = "fail"])]
            /\ UNCHANGED r2
    /\ UNCHANGED <<env, now, kvConfig, kvStats, overtaken>>
    /\ UNCHANGED credVars
    /\ UNCHANGED browserVars

\* POST /voice and the agent_voice tool
VoiceSynthesize(r, credResp, o) ==
    /\ req[r].pc = "voice"
    /\ TtsChoice(credResp, o)
    /\ LET q == req[r]
           text == IF q.tool = "agent_voice" THEN Field("hi") ELSE q.body.text
           outcome == synthesizeVoice(text, credResp, o)
       IN req' = [req EXCEPT ![r] =
            IF outcome = "ok"
            THEN Respond([q EXCEPT !.tts = "ok"], jsonResponse("audio", 200))
            ELSE Throw([q EXCEPT !.tts = outcome], VoiceErrorOf(outcome))]
    /\ UNCHANGED <<env, now, kvConfig, kvStats, r2, overtaken>>
    /\ UNCHANGED credVars
    /\ UNCHANGED browserVars

\* POST /search and the agent_search tool
SearchRun(r, o) ==
    /\ req[r].pc = "search"
    /\ LET q == [req[r] EXCEPT
                    !.search = SearchKind(o),
                    !.matched = o.matches,
                    !.knowledge = searchKnowledge(o)]
       IN req' = [req EXCEPT ![r] =
            Respond(q, [status |-> 200, kind |-> "results",
                        results |-> q.knowledge])]
    /\ UNCHANGED <<env, now, kvConfig, kvStats, r2, overtaken>>
    /\ UNCHANGED credVars
    /\ UNCHANGED browserVars

\* the value is put without JSON.stringify: KV stores String(config)
PutConfig_NoStringify(old, config) ==
    KvText([text |-> "[object Object]", doc |-> config])

PutConfig_Merge(old, config) ==
    IF old.present
    THEN KvText(JSONStringify([config EXCEPT
                !.capabilities = JSONParse(old.value).capabilities]))
    ELSE KvText(JSONStringify(config))

\* AGENT_STORE.put('agent-config', JSON.stringify(config)): the new value of
\* the key, whatever it held
PutConfig(old, config) == KvText(JSONStringify(config))

\* the slots that hold a stamped config still to be written
PendingWrites == {s \in Slots : req[s].pc \in {"configPut", "configGetPut"}}

\* GET /config: the read; a missing config makes the default one
ConfigGetRead(r, kvOk) ==
    /\ req[r].pc = "configGet"
    /\ LET q == req[r] IN
       req' = [req EXCEPT ![r] =
            IF ~kvOk THEN Throw(q, KvError)
            ELSE IF kvConfig.present
            THEN Respond(q, ConfigResponse(JSONParse(kvConfig.value)))
            ELSE [q EXCEPT !.pc = "configGetPut", !.stamped = getDefaultConfig(now)]]
    /\ UNCHANGED <<env, now, kvConfig, kvStats, r2, overtaken>>
    /\ UNCHANGED credVars
    /\ UNCHANGED browserVars

\* GET /config: the default config is stored and returned
ConfigGetPut(r, kvOk) ==
    /\ req[r].pc = "configGetPut"
    /\ LET q == req[r] IN
       IF ~kvOk
       THEN /\ req' = [req EXCEPT ![r] = Throw(q, KvError)]
            /\ UNCHANGED kvConfig
       ELSE /\ kvConfig' = PutConfig(kvConfig, q.stamped)
            /\ req' = [req EXCEPT ![r] = Respond(q, ConfigResponse(q.stamped))]
    /\ overtaken' = IF kvOk THEN overtaken \cup (PendingWrites \ {r}) ELSE overtaken
    /\ UNCHANGED <<env, now, kvStats, r2>>
    /\ UNCHANGED credVars
    /\ UNCHANGED browserVars

\* PUT /config: the stamped config is stored
ConfigPutStore(r, kvOk) ==
    /\ req[r].pc = "configPut"
    /\ LET q == req[r] IN
       IF ~kvOk
       THEN /\ req' = [req EXCEPT ![r] = Throw(q, KvError)]
            /\ UNCHANGED kvConfig
       ELSE /\ kvConfig' = PutConfig(kvConfig, q.stamped)
            /\ req' = [req EXCEPT ![r] =
                    Respond(q, [status |-> 200, kind |-> "saved",
                                config |-> q.stamped])]
    /\ overtaken' = IF kvOk THEN overtaken \cup (PendingWrites \ {r}) ELSE overtaken
    /\ UNCHANGED <<env, now, kvStats, r2>>
    /\ UNCHANGED credVars
    /\ UNCHANGED browserVars

\* GET /status and the agent_status tool: getAgentStats
StatusRead(r, kvOk) ==
    /\ req[r].pc = "status"
    /\ req' = [req EXCEPT ![r] =
            IF ~kvOk THEN Throw(req[r], KvError)
            ELSE Respond(req[r], [status |-> 200, kind |-> "status",
                                  sessions |-> StatValue(kvStats.sessions),
                                  messages |-> StatValue(kvStats.messages)])]
    /\ UNCHANGED <<env, now, kvConfig, kvStats, r2, overtaken>>
    /\ UNCHANGED credVars
    /\ UNCHANGED browserVars

\* the agent_config tool: the stored config or the default one, not stored
McpConfig(r, kvOk) ==
    /\ req[r].pc = "mcpConfig"
    /\ req' = [req EXCEPT ![r] =
            IF ~kvOk THEN Throw(req[r], KvError)
            ELSE Respond(req[r], ConfigResponse(
                    IF kvConfig.present THEN JSONParse(kvConfig.value)
                    ELSE getDefaultConfig(now)))]
    /\ UNCHANGED <<env, now, kvConfig, kvStats, r2, overtaken>>
    /\ UNCHANGED credVars
    /\ UNCHANGED browserVars

\* /pow3r-pass/{provider}
Pow3rPassFetch(r, credResp) ==
    /\ req[r].pc = "pow3rPass"
    /\ LET q == [req[r] EXCEPT !.cred = CredKind(credResp)]
           credential == fetchPow3rPassCredential(credResp)
       IN req' = [req EXCEPT ![r] =
            IF Truthy(credential)
            THEN Respond(q, [status |-> 200, kind |-> "token", token |-> credential])
            ELSE Respond(q, [status |-> 404, kind |-> "error",
                             error |-> "Credential not found"])]
    /\ UNCHANGED <<env, now, kvConfig, kvStats, r2, overtaken>>
    /\ UNCHANGED credVars
    /\ UNCHANGED browserVars

\* the response has been sent; the slot takes the next request
Finish(r) ==
    /\ req[r].pc = "done"
    /\ req' = [req EXCEPT ![r] = IdleReq]
    /\ UNCHANGED <<env, now, kvConfig, kvStats, r2, overtaken>>
    /\ UNCHANGED credVars
    /\ UNCHANGED browserVars

\* time passes
Tick ==
    /\ now < MaxTime
    /\ now' = now + 1
    /\ UNCHANGED <<env, kvConfig, kvStats, r2, req, overtaken>>
    /\ UNCHANGED credVars
    /\ UNCHANGED browserVars

(***************************************************************************)
(* Pow3r Pass credential service: checkHealth, clearCache and the          *)
(* checkApiKeys of the API client (src/src/services/api.ts)                *)
(***************************************************************************)
\* how GET /health of the credential service can end
HealthOutcomes == {"ok", "notOk", "networkError"}

\* no checkHealth has run
HealthIdle ==
    [pc |-> "idle", healthChecked |-> FALSE, isHealthy |-> FALSE,
     result |-> FALSE]

\* checkHealth up to its await: the fetch is issued
CheckHealthCall ==
    /\ health.pc = "idle"
    /\ health' = [health EXCEPT !.pc = "fetching"]
    /\ UNCHANGED <<keys, app, storage, logger>>
    /\ UNCHANGED <<credVars, workerVars>>

CacheAfterHealth_DropWhenUnhealthy(c, outcome) ==
    IF outcome = "ok" THEN c ELSE [p \in DOMAIN c |-> NoEntry]

\* the credential cache once checkHealth has run: checkHealth has no
\* statement that uses this.cache
CacheAfterHealth(c, outcome) == c

\* checkHealth after the fetch settles: both flags are set, the promise is
\* fulfilled with response.ok, or with false when the fetch failed
CheckHealthResponse(outcome) ==
    /\ health.pc = "fetching"
    /\ health' = [pc |-> "done", healthChecked |-> TRUE,
                  isHealthy |-> (outcome = "ok"), result |-> (outcome = "ok")]
    /\ cache' = CacheAfterHealth(cache, outcome)
    /\ UNCHANGED <<clock, call, upstream>>
    /\ UNCHANGED <<keys, app, storage, logger>>
    /\ UNCHANGED workerVars

\* the caller of checkHealth takes the resolved value
HealthReturn ==
    /\ health.pc = "done"
    /\ health' = [health EXCEPT !.pc = "idle"]
    /\ UNCHANGED <<keys, app, storage, logger>>
    /\ UNCHANGED <<credVars, workerVars>>

ClearedCache_KeepUnexpired(c, t) ==
    [p \in DOMAIN c |-> IF CacheHit(c[p], t) THEN c[p] ELSE NoEntry]

\* this.cache.clear()
ClearedCache(c, t) == [p \in DOMAIN c |-> NoEntry]

\* clearCache
ClearCache ==
    /\ cache' = ClearedCache(cache, clock)
    /\ cache' # cache
    /\ UNCHANGED <<clock, call, upstream>>
    /\ UNCHANGED workerVars
    /\ UNCHANGED browserVars

\* the element of the Promise.all of checkApiKeys that checks a provider
KeyCaller(p) ==
    CASE p = "xai" -> "all1"
      [] p = "elevenlabs" -> "all2"
      [] p = "gemini" -> "all3"

\* no checkApiKeys is running
KeysIdle ==
    [pc |-> "idle", settled |-> "none",
     result |-> [p \in Providers |-> FALSE]]

\* getCredential(p) up to its first await, as a value
Started(p) ==
    IF CacheHit(cache[p], clock)
    THEN [pc |-> "done", provider |-> p, result |-> cache[p].token,
          resp |-> NoResponse]
    ELSE [pc |-> "fetching", provider |-> p, result |-> Null,
          resp |-> NoResponse]

\* hasCredential: credential !== null
hasCredential(credential) == credential # Null

\* the state of a promise made by hasCredential(p)
PromiseOf(c) ==
    IF c.pc = "done"
    THEN [state |-> "fulfilled", value |-> hasCredential(c.result)]
    ELSE [state |-> "pending", value |-> FALSE]

PromiseAll_Any(promises) ==
    IF \E p \in DOMAIN promises : promises[p].state = "rejected"
    THEN [state |-> "rejected", value |-> [p \in DOMAIN promises |-> FALSE]]
    ELSE IF \E p \in DOMAIN promises : promises[p].state = "fulfilled"
    THEN [state |-> "fulfilled",
          value |-> [p \in DOMAIN promises |-> promises[p].value]]
    ELSE [state |-> "pending", value |-> [p \in DOMAIN promises |-> FALSE]]

\* Promise.all: rejected as soon as one is rejected, fulfilled with all the
\* values once all are fulfilled
PromiseAll(promises) ==
    IF \E p \in DOMAIN promises : promises[p].state = "rejected"
    THEN [state |-> "rejected", value |-> [p \in DOMAIN promises |-> FALSE]]
    ELSE IF \A p \in DOMAIN promises : promises[p].state = "fulfilled"
    THEN [state |-> "fulfilled",
          value |-> [p \in DOMAIN promises |-> promises[p].value]]
    ELSE [state |-> "pending", value |-> [p \in DOMAIN promises |-> FALSE]]

\* checkApiKeys up to its await: the three hasCredential calls are made one
\* after the other, each running getCredential up to its first await
CheckApiKeysCall ==
    /\ keys.pc = "idle"
    /\ \A p \in Providers :
        /\ call[KeyCaller(p)].pc = "idle"
        /\ CacheHit(cache[p], clock) \/ upstream[p] < MaxUpstream
    /\ call' = [c \in Callers |->
            IF \E p \in Providers : c = KeyCaller(p)
            THEN Started(CHOOSE p \in Providers : c = KeyCaller(p))
            ELSE call[c]]
    /\ upstream' = [p \in Providers |->
            IF CacheHit(cache[p], clock) THEN upstream[p] ELSE upstream[p] + 1]
    /\ keys' = [KeysIdle EXCEPT !.pc = "waiting"]
    /\ UNCHANGED <<cache, clock>>
    /\ UNCHANGED <<health, app, storage, logger>>
    /\ UNCHANGED workerVars

\* checkApiKeys after its await: the Promise.all has settled
CheckApiKeysSettles ==
    /\ keys.pc = "waiting"
    /\ LET all == PromiseAll([p \in Providers |-> PromiseOf(call[KeyCaller(p)])])
       IN /\ all.state # "pending"
          /\ keys' = [pc |-> "done", settled |-> all.state, result |-> all.value]
    /\ call' = [c \in Callers |->
            IF \E p \in Providers : c = KeyCaller(p) THEN IdleCall ELSE call[c]]
    /\ UNCHANGED <<cache, clock, upstream>>
    /\ UNCHANGED <<health, app, storage, logger>>
    /\ UNCHANGED workerVars

\* the caller of checkApiKeys takes the result
KeysReturn ==
    /\ keys.pc = "done"
    /\ keys' = KeysIdle
    /\ UNCHANGED <<health, app, storage, logger>>
    /\ UNCHANGED <<credVars, workerVars>>

(***************************************************************************)
(* Chat UI (src/src/App.tsx) and its API client (src/src/services/api.ts)  *)
(***************************************************************************)
MaxSends == 2

\* characters of the input field: the space, and one that is not a space
Space == 12
Letter == 1
\* what the user can leave in the input field
InputTexts == {<<>>, <<Space>>, <<Letter>>, <<Space, Letter, Space>>}

RECURSIVE TrimStart(_)
TrimStart(s) ==
    IF s # <<>> /\ Head(s) = Space THEN TrimStart(Tail(s)) ELSE s

RECURSIVE TrimEnd(_)
TrimEnd(s) ==
    IF s # <<>> /\ s[Len(s)] = Space THEN TrimEnd(SubSeq(s, 1, Len(s) - 1))
    ELSE s

\* String.prototype.trim
Trim(s) == TrimEnd(TrimStart(s))

\* the texts of the assistant messages
GreetingText == <<3>>
ApologyText == <<4>>
ReplyTexts == {<<5>>, <<>>}

UserMessage(text) == [role |-> "user", content |-> text, audioUrl |-> FALSE]
AssistantMessage(text, audioUrl) ==
    [role |-> "assistant", content |-> text, audioUrl |-> audioUrl]

\* how the POST /chat of sendChatMessage can end
ChatOutcomes ==
    {[kind |-> k, text |-> <<>>, audioUrl |-> FALSE] :
        k \in {"networkError", "notOk", "malformed", "jsonNull", "noText"}}
    \cup {[kind |-> "ok", text |-> t, audioUrl |-> a] :
            t \in ReplyTexts, a \in BOOLEAN}

sendChatMessage_NoOkTest(outcome) ==
    IF outcome.kind \in {"ok", "notOk"}
    THEN [fulfilled |-> TRUE, text |-> outcome.text, audioUrl |-> outcome.audioUrl]
    ELSE [fulfilled |-> FALSE, text |-> <<>>, audioUrl |-> FALSE]

\* sendChatMessage: the promise is fulfilled with the body of a 2xx answer
\* that carries a text, and rejected otherwise
sendChatMessage(outcome) ==
    IF outcome.kind = "ok"
    THEN [fulfilled |-> TRUE, text |-> outcome.text, audioUrl |-> outcome.audioUrl]
    ELSE [fulfilled |-> FALSE, text |-> <<>>, audioUrl |-> FALSE]

\* String(b) of a boolean
StringOfBoolean(b) == IF b THEN "true" ELSE "false"

LoadedPref_Default(saved, current) == current

\* if (saved !== null) set(saved === 'true')
LoadedPref(saved, current) == IF saved # Null THEN saved = "true" ELSE current

\* the values of the useState calls of a fresh component
DefaultState ==
    [messages |-> <<>>, input |-> <<>>, isLoading |-> FALSE,
     voiceEnabled |-> TRUE, darkMode |-> TRUE]

\* the values a render gives to the closures and to the elements
ViewOf(state) ==
    [input |-> state.input, isLoading |-> state.isLoading,
     voiceEnabled |-> state.voiceEnabled, darkMode |-> state.darkMode,
     shown |-> Len(state.messages)]

\* savePreferences, with the values of the render that made it
savePreferences(view) ==
    [voice |-> StringOfBoolean(view.voiceEnabled),
     dark |-> StringOfBoolean(view.darkMode)]

NoOutcome == [kind |-> "none", text |-> <<>>, audioUrl |-> FALSE]

\* the page is not open; want is history: the preferences the user chose
\* last (the defaults before any choice)
Unloaded ==
    [pc |-> "unloaded", state |-> DefaultState, view |-> ViewOf(DefaultState),
     pending |-> <<>>, sent |-> 0, last |-> NoOutcome,
     want |-> [voice |-> "true", dark |-> "true"]]

\* a commit of the pending state, followed by the save effect when
\* voiceEnabled or darkMode differ from the previous render
Commit(a, store) ==
    [app |-> [a EXCEPT !.view = ViewOf(a.state)],
     storage |->
        IF a.state.voiceEnabled # a.view.voiceEnabled
           \/ a.state.darkMode # a.view.darkMode
        THEN savePreferences(ViewOf(a.state))
        ELSE store]

\* the test of handleSendMessage: !(!input.trim() || isLoading)
SendGuard(view) == Trim(view.input) # <<>> /\ ~view.isLoading

\* setIsLoading(true)
StartLoading(state) == [state EXCEPT !.isLoading = TRUE]

\* handleSendMessage up to the await, run with the closure of the last render
handleSendMessage(a) ==
    IF ~SendGuard(a.view) THEN a
    ELSE [a EXCEPT
            !.state = StartLoading([@ EXCEPT
                !.messages = Append(@, UserMessage(Trim(a.view.input))),
                !.input = <<>>]),
            !.pending = Append(@, [message |-> Trim(a.view.input),
                                   includeVoice |-> a.view.voiceEnabled]),
            !.sent = @ + 1,
            !.last = NoOutcome]

\* the page is opened: first render, with the default values
Mount ==
    /\ app.pc = "unloaded"
    /\ app' = [Unloaded EXCEPT !.pc = "mounting", !.want = app.want]
    /\ UNCHANGED <<storage, health, keys, logger>>
    /\ UNCHANGED <<credVars, workerVars>>

\* the effects of the first render, in the order of their declaration: the
\* greeting, the load of the preferences, the save of the rendered values
MountEffects ==
    /\ app.pc = "mounting"
    /\ app' = [app EXCEPT
            !.pc = "ready",
            !.state.messages = <<AssistantMessage(GreetingText, FALSE)>>,
            !.state.voiceEnabled = LoadedPref(storage.voice, @),
            !.state.darkMode = LoadedPref(storage.dark, @)]
    /\ storage' = savePreferences(app.view)
    /\ UNCHANGED <<health, keys, logger>>
    /\ UNCHANGED <<credVars, workerVars>>

\* React renders the pending state
Render ==
    /\ app.pc = "ready"
    /\ app.view # ViewOf(app.state)
    /\ app' = Commit(app, storage).app
    /\ storage' = Commit(app, storage).storage
    /\ UNCHANGED <<health, keys, logger>>
    /\ UNCHANGED <<credVars, workerVars>>

\* a user event: its handler runs and its updates are rendered before the
\* next event
Event(a) ==
    /\ app' = Commit(a, storage).app
    /\ storage' = Commit(a, storage).storage
    /\ UNCHANGED <<health, keys, logger>>
    /\ UNCHANGED <<credVars, workerVars>>

\* onChange of the input element (disabled while loading)
Type(text) ==
    /\ app.pc = "ready"
    /\ ~app.view.isLoading
    /\ Event([app EXCEPT !.state.input = text])

\* onKeyDown with Enter in the input element (disabled while loading)
PressEnter ==
    /\ app.pc = "ready"
    /\ ~app.view.isLoading
    /\ app.sent < MaxSends
    /\ Event(handleSendMessage(app))

\* onClick of the send button (disabled={!input.trim() || isLoading})
ClickSend ==
    /\ app.pc = "ready"
    /\ ~(Trim(app.view.input) = <<>> \/ app.view.isLoading)
    /\ app.sent < MaxSends
    /\ Event(handleSendMessage(app))

\* a send attempt (Enter or the button) that is handled with the elements and
\* the closure of the last render and whose own updates are left to a later
\* render: the next event can be delivered before that render
SendBeforeRender ==
    /\ app.pc = "ready"
    /\ ~app.view.isLoading
    /\ app.sent < MaxSends
    /\ app' = handleSendMessage(app)
    /\ UNCHANGED <<storage, health, keys, logger>>
    /\ UNCHANGED <<credVars, workerVars>>

\* handleSendMessage after the await: try, catch and finally
ChatSettles(i, outcome) ==
    /\ app.pc = "ready"
    /\ i \in 1..Len(app.pending)
    /\ LET response == sendChatMessage(outcome)
           message == IF response.fulfilled
                      THEN AssistantMessage(response.text, response.audioUrl)
                      ELSE AssistantMessage(ApologyText, FALSE)
       IN app' = [app EXCEPT
            !.state.messages = Append(@, message),
            !.state.isLoading = FALSE,
            !.pending = SubSeq(@, 1, i - 1) \o SubSeq(@, i + 1, Len(@)),
            !.last = outcome]
    /\ UNCHANGED <<storage, health, keys, logger>>
    /\ UNCHANGED <<credVars, workerVars>>

\* handleVoiceToggle(!voiceEnabled), from the header or the settings modal
ToggleVoice ==
    /\ app.pc = "ready"
    /\ Event([app EXCEPT
            !.state.voiceEnabled = ~app.view.voiceEnabled,
            !.want.voice = StringOfBoolean(~app.view.voiceEnabled)])

\* handleDarkModeToggle(!darkMode), from the settings modal
ToggleDark ==
    /\ app.pc = "ready"
    /\ Event([app EXCEPT
            !.state.darkMode = ~app.view.darkMode,
            !.want.dark = StringOfBoolean(~app.view.darkMode)])

\* the page is closed or reloaded once it has rendered its state
Unload ==
    /\ app.pc = "ready"
    /\ app.view = ViewOf(app.state)
    /\ app' = [Unloaded EXCEPT !.want = app.want]
    /\ UNCHANGED <<storage, health, keys, logger>>
    /\ UNCHANGED <<credVars, workerVars>>

(***************************************************************************)
(* Logger (src/src/utils/logger.ts)                                        *)
(***************************************************************************)
\* the capacity of the buffer: maxLogs is 1000 in the program
\* (src/src/utils/logger.ts:24); the model keeps it small
maxLogs == 3
\* the number of log calls of a behaviour
MaxLogged == 5

\* the log types used (two of the five of LogType)
LogTypes == {"info", "error"}

\* the count arguments given to getRecentLogs
Counts == 0..(maxLogs + 1)

\* Array.prototype.slice(start): a negative start counts from the end, and
\* -0 is 0
Slice(l, start) ==
    LET from == IF start < 0
                THEN (IF Len(l) + start > 0 THEN Len(l) + start ELSE 0)
                ELSE (IF start < Len(l) THEN start ELSE Len(l))
    IN SubSeq(l, from + 1, Len(l))

\* an empty buffer; since is history: the entries logged since the last
\* clear; out is the array last returned to a caller, shared when that
\* array is the buffer itself
LoggerEmpty ==
    [logs |-> <<>>, since |-> <<>>, serial |-> 0, out |-> <<>>, shared |-> FALSE]

Trimmed_KeepOldest(l) == IF Len(l) > maxLogs THEN SubSeq(l, 1, maxLogs) ELSE l

\* if (this.logs.length > this.maxLogs) this.logs = this.logs.slice(-this.maxLogs)
Trimmed(l) == IF Len(l) > maxLogs THEN Slice(l, 0 - maxLogs) ELSE l

\* log: the entry is pushed and the buffer trimmed
Log(type) ==
    /\ logger.serial < MaxLogged
    /\ LET entry == [id |-> logger.serial + 1, type |-> type]
           pushed == Append(logger.logs, entry)
       IN logger' = [logger EXCEPT
            !.logs = Trimmed(pushed),
            !.since = Append(@, entry),
            !.serial = @ + 1,
            !.out = IF logger.shared THEN pushed ELSE @,
            !.shared = logger.shared /\ Len(pushed) <= maxLogs]
    /\ UNCHANGED <<health, keys, app, storage>>
    /\ UNCHANGED <<credVars, workerVars>>

getLogs_NoCopy(l) == [array |-> l, shared |-> TRUE]

\* [...this.logs]
getLogs(l) == [array |-> l, shared |-> FALSE]

\* this.logs.slice(-count)
getRecentLogs(l, count) == [array |-> Slice(l, 0 - count), shared |-> FALSE]

GetLogs ==
    /\ logger' = [logger EXCEPT !.out = getLogs(logger.logs).array,
                                !.shared = getLogs(logger.logs).shared]
    /\ logger' # logger
    /\ UNCHANGED <<health, keys, app, storage>>
    /\ UNCHANGED <<credVars, workerVars>>

GetRecentLogs(count) ==
    /\ logger' = [logger EXCEPT
            !.out = getRecentLogs(logger.logs, count).array,
            !.shared = getRecentLogs(logger.logs, count).shared]
    /\ logger' # logger
    /\ UNCHANGED <<health, keys, app, storage>>
    /\ UNCHANGED <<credVars, workerVars>>

\* the caller changes the array it was given (here: removes its last
\* element); the buffer changes with it only when it is the same array
CallerChangesArray ==
    /\ logger.out # <<>>
    /\ LET popped == SubSeq(logger.out, 1, Len(logger.out) - 1)
       IN logger' = [logger EXCEPT
            !.out = popped,
            !.logs = IF logger.shared THEN popped ELSE @]
    /\ UNCHANGED <<health, keys, app, storage>>
    /\ UNCHANGED <<credVars, workerVars>>

\* clear: this.logs = []
LoggerClear ==
    /\ logger.since # <<>>
    /\ logger' = [logger EXCEPT !.logs = <<>>, !.since = <<>>, !.shared = FALSE]
    /\ UNCHANGED <<health, keys, app, storage>>
    /\ UNCHANGED <<credVars, workerVars>>

\* nothing runs in the browser: no page, nothing saved
BrowserIdle ==
    /\ health = HealthIdle
    /\ keys = KeysIdle
    /\ app = Unloaded
    /\ storage = [voice |-> Null, dark |-> Null]
    /\ logger = LoggerEmpty

\* the credential service is not running
CredIdle ==
    /\ cache = [p \in Providers |-> NoEntry]
    /\ clock = 0
    /\ call = [c \in Callers |-> IdleCall]
    /\ upstream = [p \in Providers |-> 0]

\* the worker is not running
WorkerIdle ==
    /\ env = [XAI_API_KEY |-> Undefined, ELEVENLABS_API_KEY |-> Undefined]
    /\ now = 0
    /\ kvConfig = KvNull
    /\ kvStats = [messages |-> Absent, sessions |-> Absent]
    /\ r2 = {}
    /\ req = [s \in Slots |-> IdleReq]
    /\ overtaken = {}

\* a fresh deployment: empty stores, any combination of secrets
Init ==
    /\ CredIdle
    /\ env \in [XAI_API_KEY : {Undefined, "envKey"},
                ELEVENLABS_API_KEY : {Undefined, "envKey"}]
    /\ now = 0
    /\ kvConfig = KvNull
    /\ kvStats = [messages |-> Absent, sessions |-> Absent]
    /\ r2 = {}
    /\ req = [s \in Slots |-> IdleReq]
    /\ overtaken = {}
    /\ BrowserIdle

Handle(r) ==
    \/ \E o \in SearchOutcomes : ChatSearch(r, o)
    \/ \E kvOk \in BOOLEAN, c \in WorkerCredResponses : ChatLoadConfig(r, kvOk, c)
    \/ \E o \in LlmOutcomes : ChatCallLLM(r, o)
    \/ \E kvOk \in BOOLEAN : StatGet(r, kvOk)
    \/ \E kvOk \in BOOLEAN : StatPut(r, kvOk)
    \/ \E c \in WorkerCredResponses, o \in TtsOutcomes : ChatVoice(r, c, o)
    \/ \E ok \in BOOLEAN : ChatAudioPut(r, ok)
    \/ \E c \in WorkerCredResponses, o \in TtsOutcomes : VoiceSynthesize(r, c, o)
    \/ \E o \in SearchOutcomes : SearchRun(r, o)
    \/ \E kvOk \in BOOLEAN : ConfigGetRead(r, kvOk)
    \/ \E kvOk \in BOOLEAN : ConfigGetPut(r, kvOk)
    \/ \E kvOk \in BOOLEAN : ConfigPutStore(r, kvOk)
    \/ \E kvOk \in BOOLEAN : StatusRead(r, kvOk)
    \/ \E kvOk \in BOOLEAN : McpConfig(r, kvOk)
    \/ \E c \in WorkerCredResponses : Pow3rPassFetch(r, c)
    \/ Finish(r)

\* the worker handling one request at a time, over every route, all within
\* one reading of the clock
Next ==
    \/ \E r \in SeqSlots, m \in Methods, p \in Paths :
            \E b \in BodiesFor(Route(p, m)) : Receive(r, m, p, b)
    \/ \E r \in SeqSlots : Handle(r)

Spec == Init /\ [][Next]_vars

\* the /config requests, handled concurrently while time passes
NextConfig ==
    \/ \E r \in Slots, m \in {"GET", "PUT"} :
            \E b \in BodiesFor(Route(<<"config">>, m)) :
                Receive(r, m, <<"config">>, b)
    \/ \E r \in Slots, kvOk \in BOOLEAN : ConfigGetRead(r, kvOk)
    \/ \E r \in Slots, kvOk \in BOOLEAN : ConfigGetPut(r, kvOk)
    \/ \E r \in Slots, kvOk \in BOOLEAN : ConfigPutStore(r, kvOk)
    \/ \E r \in Slots : Finish(r)
    \/ Tick

InitConfig == CredIdle /\ WorkerIdle /\ BrowserIdle

SpecConfig == InitConfig /\ [][NextConfig]_vars

\* the answers drawn for the services while chat requests run concurrently
FewSearches ==
    {o \in SearchOutcomes : ~o.kvFail /\ o.matches \in {<<>>, <<"k1">>}}
FewCredResponses ==
    {c \in WorkerCredResponses : c.kind = "networkError" \/ c.token = "tokA"}

\* POST /chat requests handled concurrently
NextChat ==
    \/ \E r \in Slots : \E b \in ChatBodies : Receive(r, "POST", <<"chat">>, b)
    \/ \E r \in Slots, o \in FewSearches : ChatSearch(r, o)
    \/ \E r \in Slots, kvOk \in BOOLEAN, c \in FewCredResponses :
            ChatLoadConfig(r, kvOk, c)
    \/ \E r \in Slots, o \in LlmOutcomes : ChatCallLLM(r, o)
    \/ \E r \in Slots, kvOk \in BOOLEAN : StatGet(r, kvOk)
    \/ \E r \in Slots, kvOk \in BOOLEAN : StatPut(r, kvOk)
    \/ \E r \in Slots, c \in FewCredResponses, o \in TtsOutcomes : ChatVoice(r, c, o)
    \/ \E r \in Slots, ok \in BOOLEAN : ChatAudioPut(r, ok)
    \/ \E r \in Slots : Finish(r)

\* a fresh deployment that has both secrets
InitChat ==
    /\ CredIdle
    /\ env = [XAI_API_KEY |-> "envKey", ELEVENLABS_API_KEY |-> "envKey"]
    /\ now = 0
    /\ kvConfig = KvNull
    /\ kvStats = [messages |-> Absent, sessions |-> Absent]
    /\ r2 = {}
    /\ req = [s \in Slots |-> IdleReq]
    /\ overtaken = {}
    /\ BrowserIdle

SpecChat == InitChat /\ [][NextChat]_vars

InitCred == CredIdle /\ WorkerIdle /\ BrowserIdle

NextCred ==
    \/ \E c \in SeqCallers, p \in SeqProviders : GetCredentialCall(c, p)
    \/ \E c \in SeqCallers, resp \in CredResponses : GetCredentialResponse(c, resp)
    \/ \E c \in SeqCallers : CallReturn(c)
    \/ ClockTick

\* the credential service used by one caller at a time
SpecCred == InitCred /\ [][NextCred]_vars

\* the answers of the credential service used where the service is driven
\* together with other operations
FewResponses ==
    {FailResponse("notOk"), FailResponse("networkError"),
     [kind |-> "ok", token |-> "tokA", expiresAt |-> Absent],
     [kind |-> "ok", token |-> "tokB", expiresAt |-> Str(ToISOString(3))]}

InitService == CredIdle /\ WorkerIdle /\ BrowserIdle

NextService ==
    \/ \E c \in SeqCallers, p \in SeqProviders : GetCredentialCall(c, p)
    \/ \E c \in SeqCallers, resp \in FewResponses : GetCredentialResponse(c, resp)
    \/ \E c \in SeqCallers : CallReturn(c)
    \/ ClearCache
    \/ CheckHealthCall
    \/ \E o \in HealthOutcomes : CheckHealthResponse(o)
    \/ HealthReturn
    \/ ClockTick

\* the whole service: getCredential, clearCache and checkHealth, the health
\* check running while credentials are fetched
SpecService == InitService /\ [][NextService]_vars

\* the two users of the shared singleton: checkApiKeys and the settings modal
SharedCallers == {"checkApiKeys", "settings"}

InitShared == CredIdle /\ WorkerIdle /\ BrowserIdle

NextShared ==
    \/ \E c \in SharedCallers, p \in SeqProviders : GetCredentialCall(c, p)
    \/ \E c \in SharedCallers, resp \in FewResponses : GetCredentialResponse(c, resp)
    \/ \E c \in SharedCallers : CallReturn(c)
    \/ ClockTick

\* getCredential called by two users of the singleton whose calls overlap
SpecShared == InitShared /\ [][NextShared]_vars

InitKeys == CredIdle /\ WorkerIdle /\ BrowserIdle

NextKeys ==
    \/ CheckApiKeysCall
    \/ \E p \in Providers, resp \in FewResponses :
            GetCredentialResponse(KeyCaller(p), resp)
    \/ CheckApiKeysSettles
    \/ KeysReturn
    \/ ClockTick

\* checkApiKeys, called again and again while time passes
SpecKeys == InitKeys /\ [][NextKeys]_vars

InitUI == CredIdle /\ WorkerIdle /\ BrowserIdle

NextUI ==
    \/ Mount
    \/ MountEffects
    \/ Render
    \/ \E text \in InputTexts : Type(text)
    \/ PressEnter
    \/ ClickSend
    \/ \E i \in 1..MaxSends, o \in ChatOutcomes : ChatSettles(i, o)
    \/ ToggleVoice
    \/ ToggleDark
    \/ Unload

\* the chat UI in one browser tab
SpecUI == InitUI /\ [][NextUI]_vars

\* the chat UI when events can be delivered back to back, before React has
\* rendered the updates of the previous handler
NextUIBurst ==
    \/ NextUI
    \/ SendBeforeRender

SpecUIBurst == InitUI /\ [][NextUIBurst]_vars

InitLogger == CredIdle /\ WorkerIdle /\ BrowserIdle

NextLogger ==
    \/ \E type \in LogTypes : Log(type)
    \/ GetLogs
    \/ \E count \in Counts : GetRecentLogs(count)
    \/ CallerChangesArray
    \/ LoggerClear

\* the Logger singleton and the callers of its accessors
SpecLogger == InitLogger /\ [][NextLogger]_vars

(***************************************************************************)
(* Claims about the credential service                                     *)
(***************************************************************************)

\* a getCredential(p) call by c starts in this step
Starts(c, p) ==
    call[c].pc = "idle" /\ call'[c].pc # "idle" /\ call'[c].provider = p

\* the fetch of c's getCredential(p) settles in this step
Settles(c, p) ==
    call[c].pc = "fetching" /\ call'[c].pc = "done" /\ call[c].provider = p

\* the response carries an expiry (a non-empty expiresAt string)
SuppliesExpiry(resp) == resp.expiresAt.given /\ resp.expiresAt.text # <<>>

\* C1: a getCredential(p) that finds an entry whose expiry is still in the
\* future returns the cached token and issues no upstream request; one that
\* finds an entry at or after its expiry issues a new upstream request; the
\* entry a successful fetch stores expires at the provider-supplied expiresAt
\* when there is one, otherwise 5 minutes after the fetch.
C1_CacheWithinTTL ==
    [][\A c \in Callers, p \in Providers :
        /\ (Starts(c, p) /\ cache[p].present) =>
              IF cache[p].expiresAt # NaN /\ cache[p].expiresAt > clock
              THEN /\ upstream' = upstream
                   /\ call'[c].pc = "done"
                   /\ call'[c].result = cache[p].token
              ELSE /\ upstream'[p] = upstream[p] + 1
                   /\ call'[c].pc = "fetching"
        /\ (Settles(c, p) /\ call'[c].resp.kind = "ok") =>
              /\ cache'[p].present
              /\ cache'[p].token = call'[c].resp.token
              /\ cache'[p].expiresAt =
                    IF SuppliesExpiry(call'[c].resp)
                    THEN DateGetTime(call'[c].resp.expiresAt.text)
                    ELSE clock + TTLMinutes
    ]_vars

\* a second call within the TTL was answered from the cache: one upstream
\* request in total for that provider
C1_Witness ==
    \E c \in Callers :
        /\ call[c].pc = "done"
        /\ call[c].resp.kind = "none"
        /\ upstream[call[c].provider] = 1
        /\ clock > 0

\* C9: getCredential resolves to the token string or to null, and to null
\* on a network error, a non-2xx response or a malformed body.
C9_TokenOrNull ==
    \A c \in Callers :
        call[c].pc = "done" =>
            /\ call[c].result \in Tokens \cup {Null}
            /\ call[c].resp.kind \in {"networkError", "notOk", "malformed", "jsonNull"}
                  => call[c].result = Null

(***************************************************************************)
(* Claims about the orchestrator worker                                    *)
(***************************************************************************)

Done(r) == req[r].pc = "done"

\* the route table of the documentation
Documented(path, method) ==
    \/ path = <<"health">> /\ method = "GET"
    \/ path \in {<<"chat">>, <<"voice">>, <<"search">>, <<"mcp">>} /\ method = "POST"
    \/ path = <<"config">> /\ method \in {"GET", "PUT"}
    \/ path = <<"status">> /\ method = "GET"
    \/ Len(path) = 2 /\ path[1] = "pow3r-pass" /\ path[2] # "" /\ method = "GET"

\* the paths the code serves whatever the method
AnyMethodPath(path) ==
    \/ path \in {<<>>, <<"health">>, <<"status">>}
    \/ Len(path) >= 2 /\ path[1] = "pow3r-pass"

\* C2 as stated: every request outside the documented route table is
\* answered 404 {error: 'Not found'}.
C2_UndocumentedIs404 ==
    \A r \in Slots :
        (Done(r) /\ ~Documented(req[r].path, req[r].method))
            => req[r].resp = NotFound

\* C2, amended: a request that is not an OPTIONS preflight, whose path is
\* not one served for every method ('/', '/health', '/status',
\* '/pow3r-pass/...') and whose (path, method) is not documented is answered
\* 404 {error: 'Not found'}; the paths served for every method and the
\* preflight never are.
C2_UnroutedIs404 ==
    \A r \in Slots :
        Done(r) =>
            IF req[r].method = "OPTIONS"
            THEN req[r].resp = jsonResponse("preflight", 200)
            ELSE IF AnyMethodPath(req[r].path)
            THEN req[r].resp # NotFound
                 /\ (req[r].path \in {<<>>, <<"health">>}
                       => req[r].resp = jsonResponse("health", 200))
            ELSE ~Documented(req[r].path, req[r].method)
                    => req[r].resp = NotFound

\* a documented path used with an undocumented method got the 404
C2_Witness ==
    \E r \in Slots :
        /\ Done(r)
        /\ req[r].path = <<"config">>
        /\ req[r].method = "POST"
        /\ req[r].resp = NotFound

\* C4: a POST /search whose embedding call, similarity query or point-read
\* fails is answered 200 {results: []}; the failure does not reach the catch
\* of fetch().
C4_SearchDegrades ==
    \A r \in Slots :
        (Done(r) /\ req[r].route = "search"
                 /\ req[r].search \in {"embedFail", "queryFail", "kvFail"})
            => /\ req[r].resp.status = 200
               /\ req[r].resp.kind = "results"
               /\ req[r].resp.results = <<>>
               /\ req[r].thrown = ""

\* a point-read of a chunk that has a text failed, and the answer was empty
C4_Witness ==
    \E r \in Slots :
        /\ Done(r)
        /\ req[r].route = "search"
        /\ req[r].search = "kvFail"
        /\ req[r].matched = <<"k1">>
        /\ req[r].resp.status = 200

\* C5: with XAI_API_KEY unset and no token from the credential service, a
\* POST /chat ends in a 500 (carrying 'No API key configured' once the key
\* lookup has been reached) and the LLM endpoint is never called.
C5_NoKeyFails ==
    \A r \in Slots :
        (Done(r) /\ req[r].route = "chat"
                 /\ env.XAI_API_KEY = Undefined /\ req[r].cred # "token")
            => /\ req[r].resp.status = 500
               /\ req[r].resp.kind = "error"
               /\ ~req[r].sent.called
               /\ req[r].llm = "none"
               /\ req[r].cred # "none" => req[r].resp.message = NoApiKeyError

\* the credential service answered 2xx with an empty token
C5_Witness ==
    \E r \in Slots :
        /\ Done(r)
        /\ req[r].route = "chat"
        /\ env.XAI_API_KEY = Undefined
        /\ req[r].cred = "emptyToken"
        /\ req[r].resp.status = 500

\* the number of texts joined in a context: one more than the separators
CountJoined(context) ==
    IF context = <<>> THEN 0
    ELSE 1 + Cardinality({i \in 1..(Len(context) - 1) :
                            context[i] = Newline /\ context[i + 1] = Newline})

\* the matched chunks that have a non-empty stored text
WithText(matches) ==
    {i \in 1..Len(matches) :
        KnowledgeText(matches[i]).given /\ KnowledgeText(matches[i]).text # <<>>}

\* C6: retrievalCount of a chat response is the number of chunks whose text
\* was joined into the context sent to the LLM (chunks without text are not
\* counted), and it is 0 exactly when no 'Relevant knowledge' message is sent.
C6_RetrievalCount ==
    \A r \in Slots :
        (Done(r) /\ req[r].resp.kind = "chat") =>
            /\ req[r].sent.called
            /\ req[r].resp.retrievalCount = CountJoined(req[r].sent.context)
            /\ req[r].search = "ok" =>
                    req[r].resp.retrievalCount = Cardinality(WithText(req[r].matched))
            /\ req[r].search # "ok" => req[r].resp.retrievalCount = 0
            /\ (req[r].resp.retrievalCount = 0) <=> ~req[r].sent.knowledgeMsg

\* the texts of two chunks were joined and both are counted
C6_Witness ==
    \E r \in Slots :
        /\ Done(r)
        /\ req[r].resp.kind = "chat"
        /\ req[r].matched = <<"k4", "k1">>
        /\ req[r].resp.retrievalCount = 2
        /\ req[r].sent.context = <<2, 3, Newline, Newline, 1>>

\* C7: an error that leaves a handler is answered by the catch of fetch()
\* with a 500 whose body holds 'Internal server error' and the error's
\* message; no other response is a 500.
C7_ThrownIs500 ==
    \A r \in Slots :
        /\ (Done(r) /\ req[r].thrown # "") =>
                req[r].resp = [status |-> 500, kind |-> "error",
                               error |-> "Internal server error",
                               message |-> req[r].thrown]
        /\ (Done(r) /\ req[r].thrown = "") => req[r].resp.status \in {200, 404}
        /\ req[r].thrown # "" => Done(r)

\* a key-value store failure was answered with a 500
C7_Witness ==
    \E r \in Slots :
        /\ Done(r)
        /\ req[r].thrown = KvError
        /\ req[r].resp.status = 500

\* the request ran handleChat (POST /chat or the agent_chat tool)
IsChat(r) == req[r].route = "chat" \/ req[r].tool = "agent_chat"

\* the TTS call of the request failed, or its key was missing
TtsFailed(r) == req[r].tts \in {"notOk", "network", "noKey"}

\* C8 as stated: a failed LLM call, a failed TTS call or a failed audio
\* write makes the request end in a 500.
C8_FailureIs500 ==
    \A r \in Slots :
        (Done(r) /\ (req[r].llm \in {"notOk", "network"} \/ TtsFailed(r)
                     \/ req[r].blob = "fail"))
            => req[r].resp.status = 500

\* C8, amended: a failed LLM call ends the chat request in a 500 with the
\* error's message, and a failed TTS call ends POST /voice (and agent_voice)
\* in a 500 with the error's message; a chat request whose synthesis or
\* audio write fails is answered 200, without audioUrl.
C8_FailureIs500ExceptChatVoice ==
    \A r \in Slots :
        Done(r) =>
            /\ req[r].llm = "notOk" =>
                    req[r].resp = ErrorResponse(LlmError)
            /\ req[r].llm = "network" =>
                    req[r].resp = ErrorResponse(NetworkError)
            /\ (TtsFailed(r) /\ ~IsChat(r)) =>
                    req[r].resp = ErrorResponse(VoiceErrorOf(req[r].tts))
            /\ (IsChat(r) /\ (TtsFailed(r) \/ req[r].blob = "fail")) =>
                    /\ req[r].resp.status = 200
                    /\ req[r].resp.kind = "chat"
                    /\ ~req[r].resp.audioUrl.given

\* a chat request with includeVoice whose synthesis failed was answered 200
C8_Witness ==
    \E r \in Slots :
        /\ Done(r)
        /\ req[r].route = "chat"
        /\ req[r].includeVoice
        /\ req[r].tts = "notOk"
        /\ req[r].resp.status = 200

(***************************************************************************)
(* Claims about /config, checked with requests handled concurrently        *)
(***************************************************************************)
\* the step is the successful store of the config of PUT request r
PutStores(r) ==
    /\ req[r].pc = "configPut"
    /\ req'[r].pc = "done"
    /\ req'[r].resp.status = 200

\* the step is the read of GET request r that finds a stored config
GetReads(r) ==
    /\ req[r].pc = "configGet"
    /\ req'[r].pc = "done"
    /\ req'[r].resp.status = 200

\* persona, voice and capabilities of both documents are equal
SameFields(c, d) ==
    /\ c.persona = d.persona
    /\ c.voice = d.voice
    /\ c.capabilities = d.capabilities

\* the stored config was written by a PUT (the default persona is "Maxi")
StoredByPut ==
    kvConfig.present /\ JSONParse(kvConfig.value).persona # Field("Maxi")

\* C3 as stated: the lastUpdated stored by a PUT is never earlier than the
\* one stored by the previous PUT.
C3_StampsNeverGoBack ==
    [][\A r \in Slots :
        (PutStores(r) /\ StoredByPut) =>
            IsoLeq(JSONParse(kvConfig.value).lastUpdated.text,
                   JSONParse(kvConfig'.value).lastUpdated.text)]_vars

\* C3, amended: a successful PUT /config with config C stores C's persona,
\* voice and capabilities under a lastUpdated taken when the request was
\* received, and a GET /config returns the stored document as it is; the
\* lastUpdated a PUT stores is not earlier than the one it replaces unless
\* another write of the config took place between the moment the PUT took
\* its lastUpdated and its own write.
C3_RoundTripAndStamps ==
    [][\A r \in Slots :
        /\ PutStores(r) =>
            LET C == req[r].body.config
                stored == JSONParse(kvConfig'.value)
            IN /\ kvConfig'.present
               /\ SameFields(stored, C)
               /\ stored.lastUpdated.given
               /\ IsISO(stored.lastUpdated.text)
               /\ req'[r].resp.config = stored
               /\ (kvConfig.present /\ r \notin overtaken) =>
                    IsoLeq(JSONParse(kvConfig.value).lastUpdated.text,
                           stored.lastUpdated.text)
        /\ GetReads(r) =>
            /\ kvConfig.present
            /\ req'[r].resp.config = JSONParse(kvConfig.value)
            /\ kvConfig' = kvConfig]_vars

\* a GET /config returned the config of an earlier PUT, stamped by it, and
\* the other slot holds a later PUT whose stamp is not earlier
C3_Witness ==
    \E r, s \in Slots :
        /\ Done(r)
        /\ req[r].route = "configGet"
        /\ req[r].resp.status = 200
        /\ SameFields(req[r].resp.config, ConfigB)
        /\ req[r].resp.config.lastUpdated = Str(ToISOString(1))
        /\ Done(s)
        /\ req[s].route = "configPut"
        /\ req[s].resp.status = 200
        /\ req[s].body.config = ConfigA
        /\ kvConfig = KvText(JSONStringify(req[s].stamped))
        /\ req[s].stamped.lastUpdated = Str(ToISOString(2))

\* the three fields of a stored document come from one and the same source
Whole(doc) ==
    \E c \in {ConfigA, ConfigB, getDefaultConfig(0)} : SameFields(doc, c)

\* C10: when PUT /config requests overlap, each put replaces the stored
\* config by the whole stamped config of its request, so the stored config
\* is that of the request whose put executed last; fields of two requests
\* are never merged and no put is refused because of the other request (a
\* PUT fails only for its body or for a failure of the store).
C10_LastWriterWins ==
    [][\A r \in Slots :
        /\ PutStores(r) =>
            /\ kvConfig' = KvText(JSONStringify(
                    [req[r].body.config EXCEPT
                        !.lastUpdated = req[r].stamped.lastUpdated]))
            /\ req'[r].resp.kind = "saved"
        /\ (req[r].pc = "configPut" /\ req'[r].pc = "done" /\ ~PutStores(r)) =>
            /\ req'[r].resp = ErrorResponse(KvError)
            /\ kvConfig' = kvConfig
        /\ kvConfig'.present => Whole(JSONParse(kvConfig'.value))]_vars

\* two PUTs with different bodies overlapped and both were answered 200;
\* the store holds the config of the one that wrote last
C10_Witness ==
    \E r, s \in Slots :
        /\ r # s
        /\ Done(r) /\ Done(s)
        /\ req[r].route = "configPut" /\ req[s].route = "configPut"
        /\ req[r].resp.status = 200 /\ req[s].resp.status = 200
        /\ req[r].body.config = ConfigA /\ req[s].body.config = ConfigB
        /\ s \in overtaken /\ r \notin overtaken
        /\ kvConfig = KvText(JSONStringify(req[s].stamped))
        /\ req[r].stamped.lastUpdated # req[s].stamped.lastUpdated

(***************************************************************************)
(* Claims about the chat UI                                                *)
(***************************************************************************)
\* n spaces
Spaces(n) == [k \in 1..n |-> Space]

\* t is s without its leading and trailing spaces
IsTrimOf(t, s) ==
    /\ t = <<>> \/ (t[1] # Space /\ t[Len(t)] # Space)
    /\ \E i, j \in 0..Len(s) : s = Spaces(i) \o t \o Spaces(j)

\* the text is not blank
NonBlank(s) == \E i \in 1..Len(s) : s[i] # Space

\* the step is a send attempt that the claim calls accepted
AcceptedSend ==
    /\ PressEnter \/ ClickSend
    /\ NonBlank(app.view.input)
    /\ ~app.view.isLoading

\* the step is the settling of a chat call of the open page
Settling == app.pc = "ready" /\ app'.pc = "ready" /\ Len(app'.pending) < Len(app.pending)

LastOf(seq) == seq[Len(seq)]

\* C11: an accepted send (non-blank input, not loading) appends the trimmed
\* user message, clears the input, sets isLoading and issues one request;
\* when the call settles exactly one assistant message is appended right
\* after that user message - the response text if sendChatMessage resolved,
\* the fixed apology if it threw - isLoading is false again and no request
\* is issued; no other step of the open page adds a message.
C11_SendThenOneAnswer ==
    [][/\ AcceptedSend =>
            /\ Len(app'.state.messages) = Len(app.state.messages) + 1
            /\ SubSeq(app'.state.messages, 1, Len(app.state.messages))
                    = app.state.messages
            /\ LastOf(app'.state.messages).role = "user"
            /\ IsTrimOf(LastOf(app'.state.messages).content, app.view.input)
            /\ app'.state.input = <<>>
            /\ app'.state.isLoading
            /\ app'.sent = app.sent + 1
            /\ app'.pending = Append(app.pending,
                    [message |-> LastOf(app'.state.messages).content,
                     includeVoice |-> app.view.voiceEnabled])
       /\ Settling =>
            /\ Len(app'.state.messages) = Len(app.state.messages) + 1
            /\ SubSeq(app'.state.messages, 1, Len(app.state.messages))
                    = app.state.messages
            /\ LastOf(app.state.messages).role = "user"
            /\ \E i \in 1..Len(app.pending) :
                    LastOf(app.state.messages).content = app.pending[i].message
            /\ LastOf(app'.state.messages).role = "assistant"
            /\ LastOf(app'.state.messages).content =
                    IF app'.last.kind = "ok" THEN app'.last.text ELSE ApologyText
            /\ ~app'.state.isLoading
            /\ app'.sent = app.sent
            /\ Len(app'.pending) = Len(app.pending) - 1
       /\ (app.pc = "ready" /\ app'.pc = "ready" /\ ~AcceptedSend /\ ~Settling) =>
            /\ app'.state.messages = app.state.messages
            /\ app'.sent = app.sent
            /\ app'.pending = app.pending
      ]_vars

\* a padded input was sent, the call failed with a non-2xx answer, and the
\* list ends with the trimmed user message and the apology
C11_Witness ==
    /\ app.pc = "ready"
    /\ app.sent = 1
    /\ app.last.kind = "notOk"
    /\ app.state.messages =
            <<AssistantMessage(GreetingText, FALSE), UserMessage(<<Letter>>),
              AssistantMessage(ApologyText, FALSE)>>
    /\ ~app.state.isLoading
    /\ app.pending = <<>>

(***************************************************************************)
(* Claims about the whole credential service                               *)
(***************************************************************************)
\* the step belongs to a checkHealth call
HealthStep == health' # health

\* C12: checkHealth and getCredential are independent: no step of
\* checkHealth changes the cache, a call in flight or the upstream requests,
\* and whatever checkHealth has found (not run, healthy, unhealthy, in
\* flight) a getCredential call is answered from the cache exactly when the
\* entry has not expired, fetches otherwise, resolves to what its own
\* response gives, and leaves the health flags alone.
C12_HealthIndependent ==
    [][/\ HealthStep => UNCHANGED <<cache, call, upstream, clock>>
       /\ \A c \in Callers, p \in Providers :
            /\ Starts(c, p) =>
                /\ UNCHANGED <<health, cache>>
                /\ IF cache[p].present /\ cache[p].expiresAt # NaN
                      /\ cache[p].expiresAt > clock
                   THEN /\ call'[c].pc = "done"
                        /\ call'[c].result = cache[p].token
                        /\ upstream' = upstream
                   ELSE /\ call'[c].pc = "fetching"
                        /\ upstream'[p] = upstream[p] + 1
            /\ Settles(c, p) =>
                /\ UNCHANGED health
                /\ call'[c].result =
                        IF call'[c].resp.kind = "ok" THEN call'[c].resp.token
                        ELSE Null
                /\ IF call'[c].resp.kind = "ok"
                   THEN /\ cache'[p].present
                        /\ cache'[p].token = call'[c].resp.token
                        /\ \A q \in Providers \ {p} : cache'[q] = cache[q]
                   ELSE cache' = cache
      ]_vars

\* a credential was fetched and cached after checkHealth had found the
\* service unhealthy
C12_Witness ==
    \E c \in Callers :
        /\ health.healthChecked /\ ~health.isHealthy /\ health.pc = "idle"
        /\ call[c].pc = "done"
        /\ call[c].resp.kind = "ok"
        /\ call[c].result = "tokA"
        /\ cache[call[c].provider].present

\* the step stores the entry of a successful fetch of provider p
StoresFetched(p) ==
    \E c \in Callers :
        /\ Settles(c, p)
        /\ call'[c].resp.kind = "ok"
        /\ cache'[p].present
        /\ \A q \in Providers \ {p} : cache'[q] = cache[q]

\* the step removes every entry
RemovesAll == cache' = [p \in Providers |-> NoEntry] /\ call' = call

\* C16: the cache changes only when a successful getCredential fetch stores
\* its provider's entry or when clearCache removes all entries; a
\* getCredential that reads an expired entry does not remove it, and one
\* whose fetch fails leaves every entry, the expired one included, as it
\* was.
C16_CacheFrame ==
    [][/\ cache' # cache => (RemovesAll \/ \E p \in Providers : StoresFetched(p))
       /\ \A c \in Callers, p \in Providers :
            /\ Starts(c, p) => cache' = cache
            /\ (Settles(c, p) /\ call'[c].resp.kind # "ok") => cache' = cache
            /\ (Settles(c, p) /\ call'[c].resp.kind = "ok") => StoresFetched(p)
      ]_vars

\* a call found an expired entry, its fetch failed, and the expired entry is
\* still in the cache
C16_Witness ==
    \E c \in Callers :
        /\ call[c].pc = "done"
        /\ call[c].resp.kind = "notOk"
        /\ cache[call[c].provider].present
        /\ cache[call[c].provider].expiresAt <= clock

(***************************************************************************)
(* Claims about checkApiKeys                                               *)
(***************************************************************************)
\* C13: checkApiKeys starts the checks of xai, elevenlabs and gemini in one
\* go, completes only once all three have completed, and returns for each
\* provider the result of that provider's own check (true unless its
\* getCredential resolved to null); it is rejected only if a check is
\* rejected, which no check ever is.
C13_AllMustComplete ==
    [][/\ (keys.pc = "idle" /\ keys'.pc = "waiting") =>
            \A p \in Providers : Starts(KeyCaller(p), p)
       /\ (keys.pc = "waiting" /\ keys'.pc = "done") =>
            /\ \A p \in Providers :
                /\ call[KeyCaller(p)].pc = "done"
                /\ call[KeyCaller(p)].provider = p
                /\ keys'.result[p] = (call[KeyCaller(p)].result # Null)
            /\ keys'.settled = "fulfilled"
       /\ (keys.pc = "waiting" /\ \E p \in Providers : call[KeyCaller(p)].pc # "done")
            => keys'.pc = "waiting"
      ]_vars

\* the three checks completed with different results, one of them from the
\* cache, and checkApiKeys returned each provider's own
C13_Witness ==
    /\ keys.pc = "done"
    /\ keys.settled = "fulfilled"
    /\ keys.result = [p \in Providers |-> p # "elevenlabs"]
    /\ upstream["xai"] = 1 /\ upstream["gemini"] = 2 /\ upstream["elevenlabs"] = 2

(***************************************************************************)
(* Further claims about the orchestrator worker                            *)
(***************************************************************************)
\* C14: a request routed to /pow3r-pass/{provider} is answered 200 with
\* {token} exactly when the credential service answered 2xx with a
\* non-empty token, and 404 otherwise (non-2xx, network error, unreadable
\* body, missing or empty token); a remote failure never gives a 500.
C14_TokenOr404 ==
    \A r \in Slots :
        (Done(r) /\ req[r].route = "pow3rPass") =>
            IF req[r].cred = "token"
            THEN /\ req[r].resp.status = 200
                 /\ req[r].resp.kind = "token"
                 /\ req[r].resp.token = "tokA"
            ELSE /\ req[r].cred \in {"networkError", "notOk", "malformed",
                                     "jsonNull", "noToken", "emptyToken"}
                 /\ req[r].resp.status = 404
                 /\ req[r].resp.error = "Credential not found"
                 /\ req[r].thrown = ""

\* the credential service answered 2xx with an empty token: 404
C14_Witness ==
    \E r \in Slots :
        /\ Done(r)
        /\ req[r].route = "pow3rPass"
        /\ req[r].cred = "emptyToken"
        /\ req[r].resp.status = 404

(***************************************************************************)
(* Claims about the preferences of the chat UI                             *)
(***************************************************************************)
\* the page has rendered all of its state
Settled == app.pc = "ready" /\ app.view = ViewOf(app.state)

EnteredChat(q) ==
    \/ q.tool = "agent_chat"
    \/ q.route = "chat" /\ q.body.kind = "object"

\* the request of slot r issues, in this step, the call recorded in field f
Issues(r, f) == req[r][f] = "none" /\ req'[r][f] # "none"

\* C17: a chat request issues exactly one knowledge search, before anything
\* else; then at most one LLM call; then, only if the LLM call succeeded, the
\* request asked for voice and the loaded configuration has voice enabled, at
\* most one synthesis call; then, only if the synthesis succeeded, at most one
\* blob write.  No call is issued twice.
C17_ChatCallOrder ==
    [][\A r \in Slots :
        LET q == req[r] IN
        /\ \A f \in {"search", "llm", "tts", "blob"} :
              (q[f] # "none" /\ req'[r].pc # "idle") => req'[r][f] = q[f]
        /\ (EnteredChat(req'[r]) /\ req'[r].pc # "chatSearch")
              => req'[r].search # "none"
        /\ EnteredChat(q) =>
              /\ Issues(r, "search") =>
                    q.pc = "chatSearch" /\ q.llm = "none" /\ q.tts = "none"
                    /\ q.blob = "none"
              /\ Issues(r, "llm") =>
                    q.search # "none" /\ q.tts = "none" /\ q.blob = "none"
              /\ Issues(r, "tts") =>
                    /\ q.llm = "ok" /\ q.blob = "none"
                    /\ q.includeVoice
                    /\ q.config.voice.given /\ q.config.voice.enabled
              /\ Issues(r, "blob") => q.tts = "ok"]_vars

C17_Witness ==
    \E r \in Slots :
        /\ req[r].pc = "done" /\ req[r].route = "chat"
        /\ req[r].search # "none" /\ req[r].llm = "ok"
        /\ req[r].tts = "ok" /\ req[r].blob = "ok"
        /\ req[r].resp.status = 200

\* the request of slot r completes the write of incrementStat in this step
StatWritten(r) ==
    /\ req[r].pc = "statPut"
    /\ req'[r].pc \in {"chatVoice", "done"}
    /\ req'[r].thrown = ""

\* C18: no increment is lost: every chat request whose chat-completion call
\* succeeded and whose counter write completed leaves the messages count one
\* higher than it was when the write happened, also when requests overlap
C18_NoIncrementLost ==
    [][\A r \in Slots :
        StatWritten(r) =>
            StatValue(kvStats'.messages) = StatValue(kvStats.messages) + 1]_vars

\* the step is the write of GET request r, which stores the default config
GetStoresDefault(r) ==
    /\ req[r].pc = "configGetPut"
    /\ req'[r].pc = "done"
    /\ req'[r].resp.status = 200

\* C19: GET /config never answers 404, and once a PUT /config has completed,
\* no GET /config replaces the stored config with the default one, also when
\* the GET started on the empty store and overlaps the PUT
C19_GetKeepsPutConfig ==
    [][\A r \in Slots :
        /\ (req'[r].pc = "done" /\ req'[r].route = "configGet")
              => req'[r].resp.status # 404
        /\ (GetStoresDefault(r) /\ StoredByPut) => kvConfig' = kvConfig]_vars

\* after the greeting the roles alternate: user, assistant, user, ...
Alternates(messages) ==
    \A i \in 2..Len(messages) :
        messages[i].role = IF i % 2 = 0 THEN "user" ELSE "assistant"

C21_NoDeduplication ==
    [][\A c \in Callers :
        /\ (call[c].pc = "idle" /\ call'[c].pc # "idle"
             /\ ~CacheHit(cache[call'[c].provider], clock))
              => /\ call'[c].pc = "fetching"
                 /\ upstream'[call'[c].provider]
                        = upstream[call'[c].provider] + 1
        /\ (call[c].pc = "fetching" /\ call'[c].pc = "done")
              => LET r == call'[c].resp
                     q == call[c].provider
                 IN IF r.kind = "ok"
                    THEN /\ call'[c].result = r.token
                         /\ cache'[q].present
                         /\ cache'[q].token = r.token
                         /\ cache'[q].expiresAt
                                = (IF r.expiresAt.given /\ r.expiresAt.text # <<>>
                                   THEN DateGetTime(r.expiresAt.text)
                                   ELSE clock + TTLMinutes)
                    ELSE /\ call'[c].result = Null
                         /\ cache' = cache]_vars

\* two calls for one provider overlapped (both were answered within one
\* reading of the clock), got different tokens, and the cache holds the
\* token of "settings", whose response was processed last
C21_Witness ==
    /\ clock = 0
    /\ call["checkApiKeys"].pc = "done" /\ call["settings"].pc = "done"
    /\ call["checkApiKeys"].provider = "xai" /\ call["settings"].provider = "xai"
    /\ upstream["xai"] = 2
    /\ call["checkApiKeys"].result = "tokA" /\ call["settings"].result = "tokB"
    /\ cache["xai"].token = "tokB"

\* C22: hasCredential answers true only when a token was resolved, and the
\* cache never holds an entry without a token: a call that has settled with
\* a value hasCredential turns into true has a token string as that value,
\* and every entry of the cache carries a token string
C22_TrueOnlyWithToken ==
    /\ \A c \in Callers :
          (call[c].pc = "done" /\ hasCredential(call[c].result))
              => call[c].result \in Tokens
    /\ \A p \in Providers : cache[p].present => cache[p].token \in Tokens

\* the text is the JSON serialisation of a document
IsJSONText(t) == t.text = "json"

\* the request of slot r is a PUT /config whose body is not valid JSON or is
\* JSON null
BadConfigPut(q) ==
    q.route = "configPut" /\ q.body.kind \in {"malformed", "null"}

\* C23: whatever GET /config and PUT /config requests are handled, the value
\* under 'agent-config' is absent or JSON text that JSON.parse accepts; a PUT
\* /config whose body is not valid JSON or is JSON null is answered with 500
\* and its handling leaves the stored value as it was
C23_StoredConfigIsJSON ==
    [][/\ kvConfig'.present => IsJSONText(kvConfig'.value)
       /\ \A r \in Slots :
            (req[r].pc = "idle" /\ BadConfigPut(req'[r]))
                => /\ req'[r].pc = "done"
                   /\ req'[r].resp.status = 500
                   /\ kvConfig' = kvConfig]_vars

\* a PUT /config with a malformed body has been answered with 500 while the
\* store holds the config of an earlier PUT
C23_Witness ==
    \E r \in Slots :
        /\ req[r].pc = "done" /\ BadConfigPut(req[r])
        /\ req[r].body.kind = "malformed"
        /\ req[r].resp.status = 500
        /\ StoredByPut /\ IsJSONText(kvConfig.value)

\* the step changes the messages counter
CounterChanges == kvStats'.messages # kvStats.messages

\* the step is the write of incrementStat by a chat request whose
\* chat-completion call succeeded, and the write succeeds
CountsOne(r) ==
    /\ IsChat(r) /\ req[r].llm = "ok"
    /\ req[r].pc = "statPut" /\ req'[r].thrown = ""
    /\ StatValue(kvStats'.messages) = StatValue(kvStats.messages) + 1

\* the chat request has ended after a successful chat-completion call
LlmSucceeded(q) ==
    (q.route = "chat" \/ q.tool = "agent_chat") /\ q.pc = "done" /\ q.llm = "ok"

\* the request's increment is in the counter
Counted(q, stats) == q.value >= 1 /\ StatValue(stats.messages) = q.value

ChatAnswered(q) ==
    q.pc = "done" /\ q.route = "chat" /\ q.resp.kind = "chat"

IsMcp(q) == q.route = "mcp" /\ q.body.kind = "object"

\* a tools/call that names a tool
CallsTool(q) == IsMcp(q) /\ q.body.method = "tools/call" /\ q.body.params

\* a tools/call of a name that is not listed, or a method that is unknown
Unknown(q) ==
    \/ CallsTool(q) /\ q.body.name \notin ListedTools
    \/ IsMcp(q) /\ q.body.method \notin {"tools/list", "tools/call"}

\* the request issued no external call
NoCalls(q) ==
    /\ q.search = "none" /\ q.llm = "none" /\ q.tts = "none" /\ q.blob = "none"
    /\ q.cred = "none"

C27_BufferIsRecentEntries ==
    [][/\ Len(logger'.logs) <= maxLogs
       /\ Len(logger'.logs)
            = (IF Len(logger'.since) < maxLogs THEN Len(logger'.since)
               ELSE maxLogs)
       /\ \A i \in 1..Len(logger'.logs) :
            logger'.logs[i]
              = logger'.since[Len(logger'.since) - Len(logger'.logs) + i]
       /\ logger'.logs # logger.logs => logger'.since # logger.since
       /\ ~logger'.shared]_vars

\* more entries than the buffer holds were logged, the caller was given the
\* buffer's content and changed its array, and the buffer still holds the
\* last maxLogs entries
C27_Witness ==
    /\ Len(logger.since) > maxLogs
    /\ Len(logger.logs) = maxLogs
    /\ logger.logs[maxLogs] = logger.since[Len(logger.since)]
    /\ Len(logger.out) = maxLogs - 1
    /\ logger.out = SubSeq(logger.logs, 1, maxLogs - 1)
====
